---- MODULE Spec2Model ----
(***************************************************************************)
(* Events chatbot backend: api/main.py (POST / and POST /api/sync) and its *)
(* near-duplicate api/index.py (POST /query).                              *)
(*                                                                         *)
(* Text is modelled character by character (a sequence of one-character    *)
(* strings) so that the fence stripping, the strip() calls and the         *)
(* startswith("SELECT") gate are computed the way the code computes them.  *)
(* The events table is a set of rows; the 14 data columns that the upsert  *)
(* copies from EXCLUDED are represented by the single column `name`.       *)
(***************************************************************************)
EXTENDS Naturals, Sequences, FiniteSets

VARIABLES
    variant,        \* which file is deployed: "main" (api/main.py) or "index" (api/index.py)
    TABLE_SCHEMA,   \* module-level cached schema summary
    started,        \* whether the startup hook (lifespan / startup_event) has run
    tableExists,    \* whether the events table exists in the database
    events,         \* rows of the events table
    clock,          \* database time: CURRENT_TIMESTAMP of the latest write transaction
    sync,           \* per in-flight Sync request: locals of sync_data / fetch_all_records
    resp,           \* the exchange of the latest request (inputs, response, calls made);
                    \* NoExchange while that request is still being handled
    gen,            \* the latest application of generate_sql_query on its own
    overlap         \* history of two overlapping Sync requests: the order in which
                    \* their fetches returned (with the records each returned) and
                    \* the order in which they wrote

vars == <<variant, TABLE_SCHEMA, started, tableExists, events, clock, sync, resp, gen, overlap>>

None == "None"

(***************************************************************************)
(* Characters and strings                                                  *)
(***************************************************************************)
LowerChars == <<"a","b","c","d","e","f","g","h","i","j","k","l","m","n","o","p","q","r","s","t","u","v","w","x","y","z">>
UpperChars == <<"A","B","C","D","E","F","G","H","I","J","K","L","M","N","O","P","Q","R","S","T","U","V","W","X","Y","Z">>
Whitespace == {" ", "\n"}

Range(s) == {s[i] : i \in 1..Len(s)}

DropFirst(s, n) == SubSeq(s, n + 1, Len(s))

\* str.startswith
startswith(s, prefix) ==
    /\ Len(s) >= Len(prefix)
    /\ SubSeq(s, 1, Len(prefix)) = prefix

UpperOf == [c \in Range(LowerChars) |-> UpperChars[CHOOSE i \in 1..Len(LowerChars) : LowerChars[i] = c]]

UpperChar(c) == IF c \in DOMAIN UpperOf THEN UpperOf[c] ELSE c

\* str.upper
upper(s) == [i \in 1..Len(s) |-> UpperChar(s[i])]

RECURSIVE lstrip(_)
\* str.lstrip
lstrip(s) ==
    IF s # <<>> /\ Head(s) \in Whitespace THEN lstrip(Tail(s)) ELSE s

RECURSIVE rstrip(_)
\* the trailing half of str.strip
rstrip(s) ==
    IF s # <<>> /\ s[Len(s)] \in Whitespace THEN rstrip(SubSeq(s, 1, Len(s) - 1)) ELSE s

\* str.strip
strip(s) == rstrip(lstrip(s))

\* the backquote character
Tick == "BACKQUOTE"
Fence == <<Tick, Tick, Tick>>
FenceSql == Fence \o <<"s","q","l">>
FenceSqlNl == FenceSql \o <<"\n">>

RECURSIVE re_sub_fences(_)
\* re.sub of the pattern (fence 'sql' newline? | fence) by '': leftmost match first, first alternative
\* preferred, the optional newline taken greedily
re_sub_fences(s) ==
    IF s = <<>> THEN <<>>
    ELSE IF startswith(s, FenceSqlNl) THEN re_sub_fences(DropFirst(s, Len(FenceSqlNl)))
    ELSE IF startswith(s, FenceSql) THEN re_sub_fences(DropFirst(s, Len(FenceSql)))
    ELSE IF startswith(s, Fence) THEN re_sub_fences(DropFirst(s, Len(Fence)))
    ELSE <<Head(s)>> \o re_sub_fences(Tail(s))

KwSelect == <<"S","E","L","E","C","T">>
KwDelete == <<"D","E","L","E","T","E">>

\* the two literal fallback queries
INVALID_REQUEST_SQL == <<"S","E","L","E","C","T"," ","'","I","n","v","a","l","i","d"," ","r","e","q","u","e","s","t","."," ","O","n","l","y"," ","S","E","L","E","C","T"," ","q","u","e","r","i","e","s"," ","a","r","e"," ","a","l","l","o","w","e","d",".","'",";">>
GENERATION_FAILED_SQL == <<"S","E","L","E","C","T"," ","'","A","I"," ","q","u","e","r","y"," ","g","e","n","e","r","a","t","i","o","n"," ","f","a","i","l","e","d","."," ","P","l","e","a","s","e"," ","t","r","y"," ","r","e","p","h","r","a","s","i","n","g",".","'",";">>

(***************************************************************************)
(* The outcome of one call of the text-generation model: a text, or an     *)
(* exception (the API call raises, or response.text raises).               *)
(***************************************************************************)
ModelText(t) == [kind |-> "text", text |-> t]
ModelError == [kind |-> "error", text |-> <<>>]

\* the safety gate: the condition under which the generated text is replaced
NotSelect(sql_query) == ~ startswith(upper(lstrip(sql_query)), KwSelect)

\* generate_sql_query with one literal for both of its substitutions
generate_sql_query_one_literal(response) ==
    IF response.kind = "error" THEN INVALID_REQUEST_SQL
    ELSE LET sql_query == strip(re_sub_fences(response.text))
         IN  IF NotSelect(sql_query) THEN INVALID_REQUEST_SQL ELSE sql_query

\* GeminiManager.generate_sql_query, api/main.py: the try block after the prompt
generate_sql_query(response) ==
    IF response.kind = "error" THEN GENERATION_FAILED_SQL
    ELSE LET sql_query == strip(re_sub_fences(response.text))
         IN  IF NotSelect(sql_query) THEN INVALID_REQUEST_SQL ELSE sql_query

\* GeminiManager.generate_sql_query, api/index.py: the body of the coroutine
index_generate_sql_query(response) ==
    IF response.kind = "error" THEN GENERATION_FAILED_SQL
    ELSE LET sql_query == strip(re_sub_fences(response.text))
         IN  IF NotSelect(sql_query) THEN INVALID_REQUEST_SQL ELSE sql_query

(***************************************************************************)
(* SQL as the database reads it                                            *)
(***************************************************************************)
IsWordChar(c) == c \in Range(LowerChars) \cup Range(UpperChars) \cup {"_"}

RECURSIVE TakeWord(_)
TakeWord(s) ==
    IF s # <<>> /\ IsWordChar(Head(s)) THEN <<Head(s)>> \o TakeWord(Tail(s)) ELSE <<>>

\* the first keyword of a statement: the leading run of word characters
\* after any whitespace, upper-cased (SQL keywords are case-insensitive)
FirstKeyword(s) == upper(TakeWord(lstrip(s)))


\* the positions of the semicolons outside quotes
Separators(s) ==
    {i \in 1..Len(s) :
        /\ s[i] = ";"
        /\ Cardinality({j \in 1..i : s[j] = "'"}) % 2 = 0}

\* the k-th of the separators seps of a string of length n, with position 0
\* before the first one and position n + 1 after the last one
SeparatorAt(seps, n, k) ==
    IF k = 0 THEN 0
    ELSE IF k > Cardinality(seps) THEN n + 1
    ELSE CHOOSE i \in seps : Cardinality({j \in seps : j <= i}) = k

\* a multi-statement string split at its separators
SplitStatements(s) ==
    LET seps == Separators(s)
    IN  [k \in 1..(Cardinality(seps) + 1) |->
            SubSeq(s, SeparatorAt(seps, Len(s), k - 1) + 1, SeparatorAt(seps, Len(s), k) - 1)]

\* the statements the server runs: the blank ones are dropped
Statements(sql) == SelectSeq(SplitStatements(sql), LAMBDA st : strip(st) # <<>>)

\* what follows the first keyword of a statement
AfterKeyword(st) == lstrip(DropFirst(lstrip(st), Len(FirstKeyword(st))))

\* "SELECT *" stands for a SELECT * FROM events ..., "SELECT '...'" for a
\* literal row, "DELETE" for a DELETE FROM events
IsTableSelect(st) == FirstKeyword(st) = KwSelect /\ startswith(AfterKeyword(st), <<"*">>)
IsLiteralSelect(st) == FirstKeyword(st) = KwSelect /\ startswith(AfterKeyword(st), <<"'">>)
IsDelete(st) == FirstKeyword(st) = KwDelete /\ AfterKeyword(st) = <<>>
Parses(st) == IsTableSelect(st) \/ IsLiteralSelect(st) \/ IsDelete(st)
NeedsTable(st) == IsTableSelect(st) \/ IsDelete(st)

NoResult == [kind |-> "none", rows |-> {}, text |-> <<>>]
TableRows(tbl) == [kind |-> "rows", rows |-> tbl, text |-> <<>>]
LiteralRow(st) == [kind |-> "literal", rows |-> {}, text |-> AfterKeyword(st)]

\* one statement against the table: the table afterwards and the result set
RunStatement(st, tbl) ==
    IF IsDelete(st) THEN [events |-> {}, result |-> NoResult]
    ELSE IF IsTableSelect(st) THEN [events |-> tbl, result |-> TableRows(tbl)]
    ELSE [events |-> tbl, result |-> LiteralRow(st)]

RECURSIVE RunStatements(_, _, _)
\* cursor.execute of a statement list: each statement sees the effects of
\* the ones before it, and the cursor holds the result of the last one
RunStatements(sts, tbl, last) ==
    IF sts = <<>> THEN [events |-> tbl, result |-> last]
    ELSE LET r == RunStatement(Head(sts), tbl)
         IN  RunStatements(Tail(sts), r.events, r.result)

\* a Python value handed to cursor.execute
Str(t) == [py |-> "str", text |-> t]
Coroutine == [py |-> "coroutine", text |-> <<>>]

\* str(e) of the exceptions the database driver raises
CONNECT_ERROR == "could not connect to server"
NOT_A_STRING_ERROR == "argument 1 must be a string or unicode object"
EMPTY_QUERY_ERROR == "can't execute an empty query"
SYNTAX_ERROR == "syntax error at or near"
NO_TABLE_ERROR == "relation events does not exist"
NO_RESULTS_ERROR == "no results to fetch"
DriverErrors ==
    {CONNECT_ERROR, NOT_A_STRING_ERROR, EMPTY_QUERY_ERROR, SYNTAX_ERROR,
     NO_TABLE_ERROR, NO_RESULTS_ERROR}

\* NeonDBManager.execute_query: connect, cursor.execute(query), fetchall;
\* the connection's context manager commits on a normal exit and rolls
\* back when the block raises; error is the text of the exception raised
execute_query(query, dbUp, exists, tbl) ==
    LET sts == Statements(query.text)
        run == RunStatements(sts, tbl, NoResult)
        Raise(conn, e) ==
            [raised |-> TRUE, connected |-> conn, rows |-> NoResult, events |-> tbl, error |-> e]
    IN  IF ~dbUp THEN Raise(FALSE, CONNECT_ERROR)          \* psycopg2.OperationalError
        ELSE IF query.py # "str" THEN Raise(TRUE, NOT_A_STRING_ERROR)    \* TypeError
        ELSE IF sts = <<>> THEN Raise(TRUE, EMPTY_QUERY_ERROR)
        ELSE IF \E i \in 1..Len(sts) : ~Parses(sts[i]) THEN Raise(TRUE, SYNTAX_ERROR)
        ELSE IF ~exists /\ \E i \in 1..Len(sts) : NeedsTable(sts[i]) THEN Raise(TRUE, NO_TABLE_ERROR)
        ELSE IF run.result.kind = "none" THEN Raise(TRUE, NO_RESULTS_ERROR)   \* fetchall
        ELSE [raised |-> FALSE, connected |-> TRUE, rows |-> run.result, events |-> run.events,
              error |-> None]

SchemaText == "- id (integer) - airtable_id (character varying) - name (text) - updated_at (timestamp with time zone)"
SchemaNotAvailable == "Schema not available."

\* NeonDBManager.get_table_schema: one line per column of the events table
get_table_schema(exists) == IF exists THEN SchemaText ELSE ""

\* Python truthiness of an Optional[str]
Falsy(x) == x = None \/ x = ""

(***************************************************************************)
(* The Query handlers                                                      *)
(***************************************************************************)
QueryOut(status, detail, type, data, genCalled, dbCalled, sql, tbl) ==
    [status |-> status, detail |-> detail, type |-> type, data |-> data,
     genCalled |-> genCalled, dbCalled |-> dbCalled, sql |-> sql, events |-> tbl]

EMPTY_QUERY_DETAIL == "Query text cannot be empty."
INTERNAL_ERROR_DETAIL == "An internal server error occurred."
NOT_READY_DETAIL == "Service not ready: Schema not loaded."

response_type(flow) == IF flow = "get_event_details" THEN "detail" ELSE "list"

\* handle_query of api/main.py without its first line: the text is not validated
handle_query_unvalidated(request, response, dbUp, exists, tbl) ==
    LET sql_query == generate_sql_query(response)
        r == execute_query(Str(sql_query), dbUp, exists, tbl)
    IN  IF r.raised
        THEN QueryOut(500, INTERNAL_ERROR_DETAIL, None, NoResult, TRUE, TRUE, Str(sql_query), r.events)
        ELSE QueryOut(200, None, response_type(request.flow), r.rows, TRUE, TRUE, Str(sql_query), r.events)

\* handle_query of api/main.py answering a failure the way sync_data does,
\* with detail=str(e)
handle_query_detail_str_e(request, response, dbUp, exists, tbl) ==
    IF Falsy(request.query)
    THEN QueryOut(400, EMPTY_QUERY_DETAIL, None, NoResult, FALSE, FALSE, None, tbl)
    ELSE LET sql_query == generate_sql_query(response)
             r == execute_query(Str(sql_query), dbUp, exists, tbl)
         IN  IF r.raised
             THEN QueryOut(500, r.error, None, NoResult, TRUE, TRUE, Str(sql_query), r.events)
             ELSE QueryOut(200, None, response_type(request.flow), r.rows, TRUE, TRUE, Str(sql_query), r.events)

\* handle_query of api/main.py (POST /)
handle_query(request, response, dbUp, exists, tbl) ==
    IF Falsy(request.query)
    THEN QueryOut(400, EMPTY_QUERY_DETAIL, None, NoResult, FALSE, FALSE, None, tbl)
    ELSE LET sql_query == generate_sql_query(response)
             r == execute_query(Str(sql_query), dbUp, exists, tbl)
         IN  IF r.raised
             THEN QueryOut(500, INTERNAL_ERROR_DETAIL, None, NoResult, TRUE, TRUE, Str(sql_query), r.events)
             ELSE QueryOut(200, None, response_type(request.flow), r.rows, TRUE, TRUE, Str(sql_query), r.events)

\* loop.run_in_executor(None, gemini_manager.generate_sql_query, ...) of
\* api/index.py: generate_sql_query is declared async def, so calling it in
\* the executor thread only creates its coroutine object; the body (and the
\* model call in it) does not run, and the awaited future yields that object
run_in_executor_generate(response) == Coroutine

\* handle_query of api/index.py with its two checks in the other order
index_handle_query_validate_first(request, schema, response, dbUp, exists, tbl) ==
    IF Falsy(request.query)
    THEN QueryOut(400, EMPTY_QUERY_DETAIL, None, NoResult, FALSE, FALSE, None, tbl)
    ELSE IF schema = ""
    THEN QueryOut(503, NOT_READY_DETAIL, None, NoResult, FALSE, FALSE, None, tbl)
    ELSE LET sql_query == run_in_executor_generate(response)
             r == execute_query(sql_query, dbUp, exists, tbl)
         IN  IF r.raised
             THEN QueryOut(500, INTERNAL_ERROR_DETAIL, None, NoResult, TRUE, TRUE, sql_query, r.events)
             ELSE QueryOut(200, None, response_type(request.flow), r.rows, TRUE, TRUE, sql_query, r.events)

\* handle_query of api/index.py (POST /query)
index_handle_query(request, schema, response, dbUp, exists, tbl) ==
    IF schema = ""
    THEN QueryOut(503, NOT_READY_DETAIL, None, NoResult, FALSE, FALSE, None, tbl)
    ELSE IF Falsy(request.query)
    THEN QueryOut(400, EMPTY_QUERY_DETAIL, None, NoResult, FALSE, FALSE, None, tbl)
    ELSE LET sql_query == run_in_executor_generate(response)
             r == execute_query(sql_query, dbUp, exists, tbl)
         IN  IF r.raised
             THEN QueryOut(500, INTERNAL_ERROR_DETAIL, None, NoResult, TRUE, TRUE, sql_query, r.events)
             ELSE QueryOut(200, None, response_type(request.flow), r.rows, TRUE, TRUE, sql_query, r.events)


(***************************************************************************)
(* The source records, the events table and the upsert                     *)
(***************************************************************************)
\* the most pages one fetch is served, and the most write transactions
MaxPages == 2
MaxClock == 2

Ids == {"rec1", "rec2"}
Names == {"a", "b"}

\* a record of the source API: {"id": ..., "fields": {"Name": ...}}
SourceRecord(id, name) == [id |-> id, name |-> name]
SourceRecords ==
    {SourceRecord("rec1", "a"), SourceRecord("rec1", "b"),
     SourceRecord("rec2", "a"), SourceRecord(None, "a")}

\* the "records" of one page
PageSamples == {<<>>} \cup {<<r>> : r \in SourceRecords}

\* the "offset" cursors the source API hands out
Cursors == {"itr1", "itr2"}

\* a row of the events table
Row(airtable_id, name, updated_at) ==
    [airtable_id |-> airtable_id, name |-> name, updated_at |-> updated_at]

AirtableIds(tbl) == {row.airtable_id : row \in tbl}

\* NeonDBManager._process_record
_process_record(record) == [airtable_id |-> record.id, name |-> record.name]

\* the upsert without "updated_at = CURRENT_TIMESTAMP" in its SET list
UpsertStaleTimestamp(tbl, p, now) ==
    {row \in tbl : row.airtable_id # p.airtable_id}
        \cup (IF p.airtable_id \in {row.airtable_id : row \in tbl}
              THEN {[row EXCEPT !.name = p.name] : row \in {x \in tbl : x.airtable_id = p.airtable_id}}
              ELSE {[airtable_id |-> p.airtable_id, name |-> p.name, updated_at |-> now]})

\* INSERT ... ON CONFLICT (airtable_id) DO UPDATE SET name = EXCLUDED.name, ...,
\* updated_at = CURRENT_TIMESTAMP, for one mapped record
Upsert(tbl, p, now) ==
    {row \in tbl : row.airtable_id # p.airtable_id}
        \cup {Row(p.airtable_id, p.name, now)}

RECURSIVE execute_batch(_, _, _)
\* psycopg2.extras.execute_batch: the statement once per record, in order
execute_batch(tbl, processed, now) ==
    IF processed = <<>> THEN tbl
    ELSE execute_batch(Upsert(tbl, Head(processed), now), Tail(processed), now)

HasId(record) == ~Falsy(record.id)

RECURSIVE Processed(_)
\* [self._process_record(r) for r in records if r.get('id')]
Processed(records) ==
    IF records = <<>> THEN <<>>
    ELSE (IF HasId(Head(records)) THEN <<_process_record(Head(records))>> ELSE <<>>)
            \o Processed(Tail(records))

\* sync_records without its "if not processed: return"
sync_records_always_connect(records, dbUp, exists, tbl, now) ==
    LET processed == Processed(records)
        Out(raised, conn, n, t) ==
            [raised |-> raised, connected |-> conn, written |-> n, events |-> t]
    IN  IF ~dbUp THEN Out(TRUE, FALSE, 0, tbl)
        ELSE IF ~exists THEN Out(TRUE, TRUE, 0, tbl)
        ELSE Out(FALSE, TRUE, Len(processed), execute_batch(tbl, processed, now))

\* NeonDBManager.sync_records; now is the CURRENT_TIMESTAMP of its transaction
\* (the write transactions of one instance run one after the other, each
\* beginning later than the one before: the caller passes clock + 1)
sync_records(records, dbUp, exists, tbl, now) ==
    LET processed == Processed(records)
        Out(raised, conn, n, t) ==
            [raised |-> raised, connected |-> conn, written |-> n, events |-> t]
    IN  IF processed = <<>> THEN Out(FALSE, FALSE, 0, tbl)
        ELSE IF ~dbUp THEN Out(TRUE, FALSE, 0, tbl)        \* psycopg2.OperationalError
        ELSE IF ~exists THEN Out(TRUE, TRUE, 0, tbl)       \* relation "events" does not exist
        ELSE Out(FALSE, TRUE, Len(processed), execute_batch(tbl, processed, now))

(***************************************************************************)
(* AirtableClient.fetch_all_records, one page request at a time            *)
(***************************************************************************)
Idle == [pc |-> "idle", offset |-> None, all_records |-> <<>>, log |-> <<>>, pageFailed |-> FALSE]

\* the "offset" parameter of the next page request; None when it is left out
OffsetParam(offset) == IF Falsy(offset) THEN None ELSE offset

\* a page loop that does not keep the returned cursor for the next request
fetch_page_forget_cursor(st, page, cursor) ==
    [st EXCEPT !.all_records = st.all_records \o page,
               !.log = Append(st.log, [sent |-> OffsetParam(st.offset), records |-> page, cursor |-> cursor]),
               !.pc = IF Falsy(cursor) THEN "fetched" ELSE "fetching"]

\* one successful page: data = {"records": page, "offset": cursor}
fetch_page(st, page, cursor) ==
    [st EXCEPT !.all_records = st.all_records \o page,
               !.offset = cursor,
               !.log = Append(st.log, [sent |-> OffsetParam(st.offset), records |-> page, cursor |-> cursor]),
               !.pc = IF Falsy(cursor) THEN "fetched" ELSE "fetching"]

\* a page loop that answers a failed request by returning what it has so far
fetch_error_partial(st) == [st EXCEPT !.pc = "fetched"]

\* a failed page request: the except clause re-raises, the locals are lost
fetch_error(st) == [Idle EXCEPT !.pc = "raised"]

RECURSIVE Concat(_)
\* the records of the pages of a log, in page order
Concat(log) == IF log = <<>> THEN <<>> ELSE Head(log).records \o Concat(Tail(log))


(***************************************************************************)
(* Inputs                                                                  *)
(***************************************************************************)
Variants == {"main", "index"}
Slots == {1, 2}
Flows == {"get_event_details", "list"}
Queries == {None, "", "food fest"}

SqlSelectAll == <<"S","E","L","E","C","T"," ","*">>
SqlSelectLower == <<"s","e","l","e","c","t"," ","*">>
SqlDelete == <<"D","E","L","E","T","E">>
SqlSelected == <<"S","E","L","E","C","T","E","D"," ","*">>
SqlSelectDeleteSelect == SqlSelectAll \o <<";">> \o SqlDelete \o <<";">> \o SqlSelectAll
SqlSelectDelete == SqlSelectAll \o <<";">> \o SqlDelete
Prose == <<"S","o","r","r","y">>

\* what the model answers in the service runs
SampleTexts == {SqlSelectAll, SqlDelete, SqlSelected, SqlSelectDeleteSelect}
ModelOutcomes == {ModelError} \cup {ModelText(t) : t \in SampleTexts}

\* what the model answers when generate_sql_query is exercised on its own
TextPrefixes == {<<>>, FenceSqlNl, FenceSql, Fence, <<" ", "\n">>}
TextBodies ==
    {<<>>, SqlSelectAll, SqlSelectLower, SqlDelete, SqlSelected,
     SqlSelectDeleteSelect, SqlSelectDelete, Prose, <<" ">> \o SqlSelectAll}
TextSuffixes == {<<>>, Fence, <<"\n">> \o Fence, <<" ">>}
GenTexts == {p \o b \o x : p \in TextPrefixes, b \in TextBodies, x \in TextSuffixes}
GenOutcomes == {ModelError} \cup {ModelText(t) : t \in GenTexts}

(***************************************************************************)
(* Initial state: the module has been imported, nothing has run. The       *)
(* database is external: the events table may or may not exist yet. The    *)
(* handlers are registered at import, so a host that does not run the      *)
(* startup hook first can deliver a request while TABLE_SCHEMA is "".      *)
(***************************************************************************)
NoExchange == [op |-> "none"]

\* no two Sync requests have overlapped since the instance was last idle
NoOverlap == [phase |-> "none", fetched |-> <<>>, written |-> <<>>]
NoGen == [variant |-> "none", response |-> ModelError, sql |-> <<>>]

Init ==
    /\ variant \in Variants
    /\ TABLE_SCHEMA = ""
    /\ started = FALSE
    /\ tableExists \in BOOLEAN
    /\ events = {}
    /\ clock = 0
    /\ sync = [s \in Slots |-> Idle]
    /\ resp = NoExchange
    /\ gen = NoGen
    /\ overlap = NoOverlap

(***************************************************************************)
(* Startup hooks                                                           *)
(***************************************************************************)
\* startup_event of api/index.py: the schema summary, or the placeholder
startup_event(dbUp, exists) ==
    IF dbUp THEN get_table_schema(exists) ELSE SchemaNotAvailable

\* lifespan of api/main.py: setup_database creates the table, then the
\* schema summary is read; a database failure aborts the startup
Lifespan ==
    /\ variant = "main"
    /\ ~started
    /\ started' = TRUE
    /\ tableExists' = TRUE
    /\ TABLE_SCHEMA' = get_table_schema(TRUE)
    /\ UNCHANGED <<variant, events, clock, sync, resp, gen, overlap>>

StartupEvent ==
    /\ variant = "index"
    /\ ~started
    /\ \E dbUp \in BOOLEAN :
        TABLE_SCHEMA' = startup_event(dbUp, tableExists)
    /\ started' = TRUE
    /\ UNCHANGED <<variant, tableExists, events, clock, sync, resp, gen, overlap>>

\* the Sync requests being handled
InFlight == {s \in Slots : sync[s].pc # "idle"}

(***************************************************************************)
(* Query                                                                   *)
(***************************************************************************)
\* the model outcome and the database's availability are part of the
\* exchange only when the handler got as far as asking for them
NotAsked == [kind |-> "not asked", text |-> <<>>]

QueryExchange(request, response, dbUp, out) ==
    [op |-> "query", request |-> request, schema |-> TABLE_SCHEMA,
     response |-> IF out.genCalled THEN response ELSE NotAsked,
     db |-> IF ~out.dbCalled THEN "not asked" ELSE IF dbUp THEN "up" ELSE "down",
     status |-> out.status, detail |-> out.detail, type |-> out.type,
     data |-> out.data, genCalled |-> out.genCalled, dbCalled |-> out.dbCalled,
     sql |-> out.sql]

\* a Query request, handled while no Sync is in flight
Query ==
    /\ InFlight = {}
    /\ \E flow \in Flows, query \in Queries, response \in ModelOutcomes, dbUp \in BOOLEAN :
        LET request == [flow |-> flow, query |-> query]
            out == IF variant = "main"
                   THEN handle_query(request, response, dbUp, tableExists, events)
                   ELSE index_handle_query(request, TABLE_SCHEMA, response, dbUp, tableExists, events)
        IN  /\ resp' = QueryExchange(request, response, dbUp, out)
            /\ events' = out.events
    /\ UNCHANGED <<variant, TABLE_SCHEMA, started, tableExists, clock, sync, gen, overlap>>

(***************************************************************************)
(* Sync (api/main.py only)                                                 *)
(***************************************************************************)
\* N is the number in "Synced N records."; the other fields record what the
\* request did: pages fetched, records fetched, records run through the
\* upsert, whether a database connection was opened, the rows overwritten
SyncExchange(status, detail, n, pages, fetched, written, connected, replaced) ==
    [op |-> "sync", status |-> status, detail |-> detail, N |-> n, pages |-> pages,
     fetched |-> fetched, written |-> written, connected |-> connected,
     replaced |-> replaced]

\* The history of an overlap. It starts when a Sync request begins while the
\* only other one is awaiting a page, and is given up ("void") when a third
\* request joins or one of the two fails; while requests do not overlap it
\* stays NoOverlap.
BeginOverlap(s) ==
    IF InFlight = {} THEN NoOverlap
    ELSE IF overlap = NoOverlap /\ \A o \in InFlight : sync[o].pc = "fetching"
    THEN [NoOverlap EXCEPT !.phase = "overlap"]
    ELSE [NoOverlap EXCEPT !.phase = "void"]

FetchReturned(s, records) ==
    IF overlap.phase = "overlap"
    THEN [overlap EXCEPT !.fetched = Append(@, [slot |-> s, records |-> records])]
    ELSE overlap

Wrote(s) ==
    IF overlap.phase = "overlap" THEN [overlap EXCEPT !.written = Append(@, s)] ELSE overlap

Abandoned ==
    IF overlap.phase = "overlap" THEN [NoOverlap EXCEPT !.phase = "void"] ELSE overlap

\* sync_data up to the first page request
SyncBegin(s) ==
    /\ variant = "main"
    /\ sync[s].pc = "idle"
    /\ clock + Cardinality(InFlight) < MaxClock
    /\ sync' = [sync EXCEPT ![s] = [Idle EXCEPT !.pc = "fetching"]]
    /\ resp' = NoExchange
    /\ overlap' = BeginOverlap(s)
    /\ UNCHANGED <<variant, TABLE_SCHEMA, started, tableExists, events, clock, gen>>

\* a page request answered with a success status
FetchPage(s) ==
    /\ sync[s].pc = "fetching"
    /\ \E page \in PageSamples, cursor \in Cursors \cup {None} :
        /\ Len(sync[s].log) + 1 >= MaxPages => cursor = None
        /\ sync' = [sync EXCEPT ![s] = fetch_page(sync[s], page, cursor)]
    /\ overlap' = IF sync'[s].pc = "fetched" THEN FetchReturned(s, sync'[s].all_records) ELSE overlap
    /\ UNCHANGED <<variant, TABLE_SCHEMA, started, tableExists, events, clock, resp, gen>>

\* a page request that fails (error status or transport error): the
\* exception leaves fetch_all_records and sync_data answers 500
FetchFail(s) ==
    /\ sync[s].pc = "fetching"
    /\ LET st == fetch_error(sync[s])
       IN  IF st.pc = "raised"
           THEN /\ sync' = [sync EXCEPT ![s] = [Idle EXCEPT !.pageFailed = TRUE]]
                /\ resp' = SyncExchange(500, "Airtable error", None, Len(sync[s].log), None, 0, FALSE, {})
           ELSE /\ sync' = [sync EXCEPT ![s] = [st EXCEPT !.pageFailed = TRUE]]
                /\ UNCHANGED resp
    /\ overlap' = Abandoned
    /\ UNCHANGED <<variant, TABLE_SCHEMA, started, tableExists, events, clock, gen>>

\* the rest of sync_data once fetch_all_records has returned
SyncRecords(s) ==
    /\ sync[s].pc = "fetched"
    /\ \E dbUp \in BOOLEAN :
        LET records == sync[s].all_records
            r == sync_records(records, dbUp, tableExists, events, clock + 1)
        IN  /\ events' = r.events
            /\ clock' = IF r.connected /\ ~r.raised THEN clock + 1 ELSE clock
            /\ resp' = IF r.raised
                       THEN SyncExchange(500, "database error", None, Len(sync[s].log), Len(records), r.written, r.connected, {})
                       ELSE SyncExchange(200, None, Len(records), Len(sync[s].log), Len(records), r.written, r.connected,
                                         events \ r.events)
            /\ overlap' = IF r.raised THEN Abandoned ELSE Wrote(s)
    /\ sync' = [sync EXCEPT ![s] = [Idle EXCEPT !.pageFailed = sync[s].pageFailed]]
    /\ UNCHANGED <<variant, TABLE_SCHEMA, started, tableExists, gen>>

(***************************************************************************)
(* Specifications                                                          *)
(***************************************************************************)
\* Requests are handled one at a time: one Sync slot is stepped, and Query
\* runs while no Sync is in flight. The second slot of Slots stays idle; it
\* is for runs in which two Sync requests overlap.
SerialSlots == {1}

SyncStep == \E s \in SerialSlots : SyncBegin(s) \/ FetchPage(s) \/ FetchFail(s) \/ SyncRecords(s)

Next == Lifespan \/ StartupEvent \/ Query \/ SyncStep

Spec == Init /\ [][Next]_vars

SyncNext == Lifespan \/ SyncStep

SyncSpec == Init /\ [][SyncNext]_vars

\* Sync requests of one instance overlapping: a second sync_data coroutine
\* runs while the first is suspended in fetch_all_records. Each page request
\* and the close of the client session are awaits; sync_records blocks the
\* event loop, so the two write transactions do not interleave.
OverlapStep == \E s \in Slots : SyncBegin(s) \/ FetchPage(s) \/ FetchFail(s) \/ SyncRecords(s)

OverlapNext == Lifespan \/ OverlapStep

OverlapSpec == Init /\ [][OverlapNext]_vars

\* generate_sql_query applied to one model outcome
GenerateSql ==
    /\ \E v \in Variants, response \in GenOutcomes :
        gen' = [variant |-> v, response |-> response,
                sql |-> IF v = "main" THEN generate_sql_query(response)
                        ELSE index_generate_sql_query(response)]
    /\ UNCHANGED <<variant, TABLE_SCHEMA, started, tableExists, events, clock, sync, resp, overlap>>

GenSpec == Init /\ [][GenerateSql]_vars


\* every page request is eventually answered
FairSyncSpec == SyncSpec /\ \A s \in SerialSlots : WF_vars(FetchPage(s))

(***************************************************************************)
(* Properties                                                              *)
(***************************************************************************)
IsQuery == resp.op = "query"
IsSync == resp.op = "sync"

\* C1: whatever the model returns or raises, in both variants, the string
\* generate_sql_query returns has SELECT as its first keyword.
C1_FirstKeywordIsSelect ==
    gen.variant # "none" => FirstKeyword(gen.sql) = KwSelect

\* the last record of a batch that carries the identifier id
LastWithId(records, id) ==
    records[CHOOSE i \in 1..Len(records) :
                /\ records[i].id = id
                /\ \A j \in (i + 1)..Len(records) : records[j].id # id]

BatchIds(records) == {records[i].id : i \in {j \in 1..Len(records) : HasId(records[j])}}

\* a step in which slot s commits its upsert batch
Commits(s) ==
    /\ sync[s].pc = "fetched"
    /\ sync'[s].pc = "idle"
    /\ resp'.op = "sync"
    /\ resp'.status = 200

\* C2: across Sync operations the table holds exactly one row per identifier
\* ever synced: a committed batch adds the identifiers it brings and nothing
\* else changes the table; a row synced again holds the values of the later
\* sync and a strictly later updated_at.
C2_OneRowPerIdentifier ==
    [][/\ \A r1, r2 \in events' : r1.airtable_id = r2.airtable_id => r1 = r2
       /\ \A s \in Slots : Commits(s) =>
            /\ AirtableIds(events') = AirtableIds(events) \cup BatchIds(sync[s].all_records)
            /\ \A id \in BatchIds(sync[s].all_records) :
                \E row \in events' :
                    /\ row.airtable_id = id
                    /\ row.name = LastWithId(sync[s].all_records, id).name
                    /\ \A old \in events : old.airtable_id = id => row.updated_at > old.updated_at
            /\ \A row \in events : row.airtable_id \notin BatchIds(sync[s].all_records) => row \in events'
       /\ (\A s \in Slots : ~Commits(s)) => events' = events
      ]_vars

\* C2 witness: a committed Sync overwrote a row with different values
C2_Witness ==
    /\ IsSync /\ resp.status = 200
    /\ \E old \in resp.replaced : \E row \in events :
        /\ row.airtable_id = old.airtable_id
        /\ row.name # old.name
        /\ row.updated_at > old.updated_at
    /\ Cardinality(events) = 2

\* C3: a Query never changes the events table, and no step of the service
\* deletes a row.
C3_QueryIsReadOnly ==
    [][/\ resp'.op = "query" => events' = events
       /\ AirtableIds(events) \subseteq AirtableIds(events')
      ]_vars

\* C4 as claimed: an empty or absent query text is answered 400 in every
\* state and in both variants, with neither generator nor store manager called.
C4_EmptyQueryIs400 ==
    (IsQuery /\ Falsy(resp.request.query)) =>
        /\ resp.status = 400
        /\ ~resp.genCalled
        /\ ~resp.dbCalled

\* C4 as amended: an empty or absent query text never reaches the generator
\* or the store manager; it is answered 400, except in the /query variant
\* while the schema summary is empty, where it is answered 503.
C4_EmptyQueryRejected ==
    (IsQuery /\ Falsy(resp.request.query)) =>
        /\ resp.status = IF variant = "index" /\ resp.schema = "" THEN 503 ELSE 400
        /\ ~resp.genCalled
        /\ ~resp.dbCalled

\* C4 witness: empty text answered 400 by the /query variant
C4_Witness ==
    /\ IsQuery /\ variant = "index"
    /\ resp.request.query = ""
    /\ resp.status = 400

\* the generator of the deployed variant
Generated(response) ==
    IF variant = "main" THEN generate_sql_query(response) ELSE index_generate_sql_query(response)

\* C5: for a non-empty text (and, in /query, a loaded schema), when the model
\* answers and the database runs the generator's SQL, the response carries the
\* rows of that SQL and the type label "detail" exactly for get_event_details.
C5_QueryReturnsRows ==
    [][(/\ resp'.op = "query"
        /\ started' = started
        /\ ~Falsy(resp'.request.query)
        /\ variant = "index" => resp'.schema = SchemaText
        /\ resp'.response.kind = "text"
        /\ resp'.db = "up"
        /\ ~execute_query(Str(Generated(resp'.response)), TRUE, tableExists, events).raised)
       => /\ resp'.status = 200
          /\ resp'.sql = Str(Generated(resp'.response))
          /\ resp'.data = execute_query(resp'.sql, TRUE, tableExists, events).rows
          /\ resp'.type = IF resp'.request.flow = "get_event_details" THEN "detail" ELSE "list"
      ]_vars

\* C6 as claimed: /query answers 503, calling nothing, whenever the schema
\* summary was not loaded from the database.
C6_NotLoadedIs503 ==
    (IsQuery /\ variant = "index" /\ resp.schema # SchemaText) =>
        /\ resp.status = 503
        /\ ~resp.genCalled
        /\ ~resp.dbCalled

\* C6 as amended: /query answers 503, calling nothing, exactly while the
\* cached schema summary is empty (startup has not run, or the load returned
\* no columns); after a failed load the placeholder text is cached and the
\* request is not answered 503.
C6_EmptySchemaIs503 ==
    (IsQuery /\ variant = "index") =>
        /\ resp.schema = "" => (resp.status = 503 /\ ~resp.genCalled /\ ~resp.dbCalled)
        /\ resp.schema # "" => resp.status # 503

\* C6 witness: the startup load returned no columns and a request with a
\* text was answered 503
C6_Witness ==
    /\ IsQuery /\ variant = "index" /\ started
    /\ TABLE_SCHEMA = ""
    /\ ~Falsy(resp.request.query)
    /\ resp.status = 503

\* C7: a failed page request ends the Sync with a 500; the records fetched so
\* far are dropped, no upsert is started and the table is unchanged.
C7_FetchFailureAborts ==
    [][\A s \in Slots :
        (sync[s].pc = "fetching" /\ sync'[s].pageFailed) =>
            /\ sync'[s].pc = "idle"
            /\ sync'[s].all_records = <<>>
            /\ events' = events
            /\ clock' = clock
            /\ resp'.op = "sync"
            /\ resp'.status = 500
            /\ ~resp'.connected
            /\ resp'.written = 0
      ]_vars

\* C7 witness: a page request failed after a page had been fetched, over a
\* table that holds rows
C7_Witness ==
    /\ IsSync /\ resp.status = 500
    /\ sync[1].pageFailed
    /\ resp.pages >= 1
    /\ events # {}

\* C8: the N of "Synced N records." is the number of fetched records written
\* by the upsert batch, the records without an identifier being skipped.
C8_CountIsWritten ==
    (IsSync /\ resp.status = 200) => resp.N = resp.written

\* C9: a Sync that fetched no records opens no database connection, leaves
\* the table and every updated_at as they were, and reports zero.
C9_EmptySyncWritesNothing ==
    [][\A s \in Slots :
        (sync[s].pc = "fetched" /\ sync[s].all_records = <<>> /\ sync'[s].pc = "idle") =>
            /\ events' = events
            /\ clock' = clock
            /\ resp'.op = "sync"
            /\ resp'.status = 200
            /\ ~resp'.connected
            /\ resp'.written = 0
            /\ resp'.N = 0
      ]_vars

\* C9 witness: a Sync of zero records answered over a table that holds rows
C9_Witness ==
    /\ IsSync /\ resp.status = 200
    /\ resp.fetched = 0
    /\ resp.pages >= 1
    /\ events # {}

\* the page loop of slot s as the claim describes it
PagedInOrder(s) ==
    LET st == sync[s]
        log == st.log
    IN  st.pc \in {"fetching", "fetched"} =>
            /\ st.all_records = Concat(log)
            /\ \A i \in 1..Len(log) :
                log[i].sent = IF i = 1 THEN None ELSE log[i - 1].cursor
            /\ \A i \in 1..(Len(log) - 1) : log[i].cursor # None
            /\ st.pc = "fetched" <=> (log # <<>> /\ log[Len(log)].cursor = None)

\* C10: pages are requested one at a time, each with the cursor the previous
\* page returned, up to the first page without a cursor; the records returned
\* are those of the requested pages in page order; and the loop ends.
C10_FetchAllPages ==
    /\ [](\A s \in Slots : PagedInOrder(s))
    /\ \A s \in SerialSlots :
        (sync[s].pc = "fetching") ~> (sync[s].pc = "fetched" \/ sync[s].pageFailed)

\* C10 witness: a fetch of two pages, both with records, has returned
C10_Witness ==
    /\ sync[1].pc = "fetched"
    /\ Len(sync[1].log) = 2
    /\ \A i \in 1..2 : sync[1].log[i].records # <<>>
    /\ Len(sync[1].all_records) = 2


\* the one row "SELECT '<text>';" returns
FallbackRow(sql) == LiteralRow(SubSeq(sql, 1, Len(sql) - 1))

\* C11: in api/main.py, when the model call raises, generate_sql_query
\* returns the "generation failed" literal, which is not the "invalid
\* request" literal, and handle_query hands that literal to execute_query:
\* with the database reachable the answer is 200 with the literal's row, not
\* a server error. (In api/index.py the body of generate_sql_query does not
\* run, so no model call is made there.)
C11_ModelErrorFallsBack ==
    (IsQuery /\ variant = "main" /\ resp.response.kind = "error") =>
        /\ GENERATION_FAILED_SQL # INVALID_REQUEST_SQL
        /\ resp.sql = Str(GENERATION_FAILED_SQL)
        /\ resp.dbCalled
        /\ resp.db = "up" =>
            /\ resp.status = 200
            /\ resp.data = FallbackRow(GENERATION_FAILED_SQL)
            /\ resp.type = response_type(resp.request.flow)

C11_Witness ==
    /\ IsQuery
    /\ variant = "main"
    /\ resp.response.kind = "error"
    /\ resp.db = "up"
    /\ resp.status = 200
    /\ resp.data.kind = "literal"

\* the exception that reaches the except clause of the Query handler in a
\* step that answers a validated request (None when nothing is raised): the
\* generator raises nothing in either variant, so it is what execute_query
\* raises for the SQL the handler passed, in the state the step started in
UnderlyingError(x, exists, tbl) == execute_query(x.sql, x.db = "up", exists, tbl).error

\* the body of an error response: {"detail": ...} and nothing else
OnlyDetail(x) == x.type = None /\ x.data = NoResult

\* C12: in both variants, whenever something is raised while a validated
\* Query request is handled (the database cannot be reached, or it rejects
\* the SQL or the value passed as SQL), the answer is 500 with the one fixed
\* detail string and nothing else; the detail is the same whatever the
\* error was and is not the error's text.
C12_FailuresAreGeneric ==
    [][(/\ resp'.op = "query"
        /\ started' = started
        /\ resp'.dbCalled
        /\ UnderlyingError(resp', tableExists, events) # None)
       => /\ resp'.status = 500
          /\ resp'.detail = INTERNAL_ERROR_DETAIL
          /\ resp'.detail \notin DriverErrors
          /\ resp'.detail # UnderlyingError(resp', tableExists, events)
          /\ OnlyDetail(resp')
          /\ events' = events
      ]_vars

C12_Witness ==
    /\ IsQuery
    /\ resp.status = 500
    /\ resp.dbCalled
    /\ resp.db = "up"
    /\ resp.response.kind = "text"
    /\ resp.sql.py = "str"
    /\ resp.detail = INTERNAL_ERROR_DETAIL

\* the two overlapping Sync requests have both returned 200
BothComplete == overlap.phase = "overlap" /\ Len(overlap.written) = 2

\* the fetches of the overlap, in the order they returned, that brought id
FetchesWith(id) ==
    {i \in 1..Len(overlap.fetched) : id \in BatchIds(overlap.fetched[i].records)}

\* the values of id in the snapshot that was fetched last among those with id
NewestFetched(id) ==
    LET last == CHOOSE i \in FetchesWith(id) : \A j \in FetchesWith(id) : j <= i
    IN  LastWithId(overlap.fetched[last].records, id)

\* C13: when a second Sync request starts its fetch while the first is
\* awaiting a page, then once both have completed the table has one row per
\* identifier, and the row of every identifier they fetched holds the values
\* of the snapshot whose fetch returned last, whichever request wrote last.
C13_NewestSnapshotWins ==
    BothComplete =>
        /\ \A r1, r2 \in events : r1.airtable_id = r2.airtable_id => r1 = r2
        /\ \A id \in Ids :
              FetchesWith(id) # {} =>
                  \E row \in events :
                      /\ row.airtable_id = id
                      /\ row.name = NewestFetched(id).name

====
